---- MODULE Spec2Model ----
(***************************************************************************)
(* Timetable read / merge / conflict-detection / swap engine of            *)
(* windows/timetable_display_component.py and the settings resolver of     *)
(* windows/temp_timetable.py.                                              *)
(*                                                                         *)
(* Text values on which the code does string work (subject codes, subject  *)
(* names, setting values) are sequences of one-character strings, so that  *)
(* slicing, splitting and integer parsing are computed, not assumed.       *)
(* Values the code only compares (section names, faculty initials, day     *)
(* names, colours) are plain strings.                                      *)
(***************************************************************************)
EXTENDS Integers, Sequences, FiniteSets, TLC

VARIABLES conn, settings, dbExists, inject, schedule, lessons, class_names, days, periods, last

vars == <<conn, settings, dbExists, inject, schedule, lessons, class_names, days, periods, last>>

(***************************************************************************)
(* Bounds of the model.                                                    *)
(***************************************************************************)
MaxSched == 3

MaxLess == 2

MaxTotal == 4

MaxDayTokens == 2

MaxEntries == 2

(***************************************************************************)
(* Python / SQL values.                                                    *)
(***************************************************************************)
\* Python None / SQL NULL for a text value held as a character sequence.
None == <<"<None>">>

\* Python None / SQL NULL for a value held as a plain string.
NoneS == "<None>"

\* fetchone() returning None: no row.
NoRow == [found |-> FALSE, a |-> None, b |-> NoneS]

\* Python truthiness of a text value held as a character sequence.
Truthy(s) == s # None /\ s # <<>>

\* Python truthiness of a value held as a plain string.
TruthyS(s) == s # NoneS /\ s # ""

SeqToSet(s) == {s[i] : i \in DOMAIN s}

SeqsUpTo(S, n) == UNION {[1..k -> S] : k \in 0..n}

\* s[:2] of Python.
Prefix2(s) == SubSeq(s, 1, IF Len(s) < 2 THEN Len(s) ELSE 2)

\* Index of the first element of s equal to x, 0 when there is none.
IndexOf(s, x) == IF \E i \in DOMAIN s : s[i] = x
                 THEN CHOOSE i \in DOMAIN s : s[i] = x /\ \A j \in 1..(i-1) : s[j] # x
                 ELSE 0

\* Lexicographic order on integer tuples of equal length.
LexLess(a, b) == \E i \in DOMAIN a : a[i] < b[i] /\ \A j \in 1..(i-1) : a[j] = b[j]

\* ORDER BY: stable insertion of x into a sequence sorted by the field k.
RECURSIVE InsertByKey(_, _)
InsertByKey(sorted, x) ==
    IF sorted = <<>> THEN <<x>>
    ELSE IF LexLess(x.k, sorted[Len(sorted)].k)
         THEN Append(InsertByKey(SubSeq(sorted, 1, Len(sorted) - 1), x), sorted[Len(sorted)])
         ELSE Append(sorted, x)

RECURSIVE SortByKey(_)
SortByKey(s) ==
    IF s = <<>> THEN <<>>
    ELSE InsertByKey(SortByKey(SubSeq(s, 1, Len(s) - 1)), s[Len(s)])

(***************************************************************************)
(* Reference tables of the store that the engine only reads.               *)
(***************************************************************************)
MA1 == <<"M", "A", "1">>

PH1 == <<"P", "H", "1">>

XY9 == <<"X", "Y", "9">>

NULLCODE == <<"N", "U", "L", "L">>

\* SUBJECTS(SUBCODE, SUBNAME, COLOR); XY9 and the sentinel have no row.
SUBJECTS ==
    { [SUBCODE |-> MA1, SUBNAME |-> <<"M", "a", "t", "h", "s">>, COLOR |-> "#FFCCCC"],
      [SUBCODE |-> PH1, SUBNAME |-> <<"P", "h", "y", "s">>, COLOR |-> NoneS] }

\* FACULTY(FID, INI).
FACULTY == { [FID |-> "T1", INI |-> "JD"], [FID |-> "T2", INI |-> "KS"] }

\* LESSONS(CLASS_NAME, SUBJECT_CODE, LESSON_TYPE).
LESSONS == { [CLASS_NAME |-> "A", SUBJECT_CODE |-> MA1, LESSON_TYPE |-> "Double"],
             [CLASS_NAME |-> "B", SUBJECT_CODE |-> PH1, LESSON_TYPE |-> "Triple"],
             [CLASS_NAME |-> "C", SUBJECT_CODE |-> MA1, LESSON_TYPE |-> "Double"],
             [CLASS_NAME |-> "C", SUBJECT_CODE |-> PH1, LESSON_TYPE |-> "Triple"] }

\* Collation order of the section names (ORDER BY SECTION / CLASS_NAME).
SectionOrder == <<"A", "B", "C">>

\* Collation rank of the faculty initials (ORDER BY ... FINI).
FiniRank(f) == CASE f = "JD" -> 1 [] f = "KS" -> 2 [] f = "NULL" -> 3 [] OTHER -> 4

\* Collation rank of the legacy day codes (ORDER BY DAY_OF_WEEK).
DayCodeRank(c) == CASE c = "Fr" -> 1 [] c = "Mo" -> 2 [] c = "Sa" -> 3 [] c = "Su" -> 4
                    [] c = "Th" -> 5 [] c = "Tu" -> 6 [] c = "We" -> 7 [] OTHER -> 8

\* LEFT JOIN SUBJECTS s ON <code> = s.SUBCODE: the joined row, or all NULL.
SubjectJoin(code) ==
    IF \E s \in SUBJECTS : s.SUBCODE = code
    THEN CHOOSE s \in SUBJECTS : s.SUBCODE = code
    ELSE [SUBCODE |-> None, SUBNAME |-> None, COLOR |-> NoneS]

\* LEFT JOIN FACULTY f ON sl.TEACHER_ID = f.FID: f.INI, or NULL.
FacultyIni(tid) ==
    IF \E f \in FACULTY : f.FID = tid
    THEN (CHOOSE f \in FACULTY : f.FID = tid).INI
    ELSE NoneS

\* load_subject_colors(): SUBCODE -> COLOR for the rows where both are set.
SubjectColors == { s \in SUBJECTS : Truthy(s.SUBCODE) /\ TruthyS(s.COLOR) }

\* lesson_types.get(subject_code, "Single") for one class.
LessonType(cls, code) ==
    IF \E l \in LESSONS : l.CLASS_NAME = cls /\ l.SUBJECT_CODE = code
    THEN (CHOOSE l \in LESSONS : l.CLASS_NAME = cls /\ l.SUBJECT_CODE = code).LESSON_TYPE
    ELSE "Single"

(***************************************************************************)
(* load_classes_from_db                                                    *)
(***************************************************************************)
\* [f"Class {i+1}" for i in range(5)]
DefaultClasses == <<"Class 1", "Class 2", "Class 3", "Class 4", "Class 5">>

\* SELECT DISTINCT <name> ... ORDER BY <name>
DistinctSorted(names) == SelectSeq(SectionOrder, LAMBDA n : n \in names)

\* The CLASS table, the last source tried, holds no section.
load_classes_from_db(db, sched, less) ==
    IF ~db THEN <<>>
    ELSE LET fromSchedule == DistinctSorted({sched[i].SECTION : i \in DOMAIN sched})
             fromLessons == DistinctSorted({less[i].CLASS_NAME : i \in DOMAIN less})
             classes == IF fromSchedule # <<>> THEN fromSchedule ELSE fromLessons
         IN  IF classes # <<>> THEN classes ELSE DefaultClasses

(***************************************************************************)
(* check_faculty_conflicts                                                 *)
(***************************************************************************)
\* ConflictJoinOn without the faculty comparison.
ConflictJoinOn_AnyFaculty(s1, s2) ==
    /\ s1.DAYID = s2.DAYID
    /\ s1.PERIODID = s2.PERIODID
    /\ s1.SECTION # s2.SECTION

\* ConflictJoinOn reporting each pair of sections once, in section order.
ConflictJoinOn_OneDirection(s1, s2) ==
    /\ s1.DAYID = s2.DAYID
    /\ s1.PERIODID = s2.PERIODID
    /\ s1.FINI = s2.FINI
    /\ IndexOf(SectionOrder, s1.SECTION) < IndexOf(SectionOrder, s2.SECTION)

\* The ON condition of the SCHEDULE self-join.
ConflictJoinOn(s1, s2) ==
    /\ s1.DAYID = s2.DAYID
    /\ s1.PERIODID = s2.PERIODID
    /\ s1.FINI = s2.FINI
    /\ s1.SECTION # s2.SECTION

\* SELECT s1.DAYID, s1.PERIODID, s1.FINI, s1.SECTION, s2.SECTION FROM SCHEDULE s1
\* JOIN SCHEDULE s2 ON ... ORDER BY s1.DAYID, s1.PERIODID, s1.FINI
ConflictQuery(sched) ==
    LET n == Len(sched)
        pairs == [k \in 1..(n * n) |-> <<((k - 1) \div n) + 1, ((k - 1) % n) + 1>>]
        hits == SelectSeq(pairs, LAMBDA q : ConflictJoinOn(sched[q[1]], sched[q[2]]))
        rows == [k \in DOMAIN hits |->
                    LET s1 == sched[hits[k][1]]
                        s2 == sched[hits[k][2]]
                    IN  [k |-> <<s1.DAYID, s1.PERIODID, FiniRank(s1.FINI)>>,
                         t |-> <<s1.DAYID, s1.PERIODID, s1.FINI, s1.SECTION, s2.SECTION>>]]
        sorted == SortByKey(rows)
    IN  [k \in DOMAIN sorted |-> sorted[k].t]

\* The cells of one conflict: every class index whose name is one of its sections.
ConflictCellsOf(conflict, classes) ==
    { <<i - 1, conflict[1], conflict[2]>> :
        i \in {j \in DOMAIN classes : classes[j] = conflict[4] \/ classes[j] = conflict[5]} }

check_faculty_conflicts(db, sched, less) ==
    IF ~db THEN [conflicts |-> <<>>, conflict_cells |-> {}]
    ELSE LET conflicts_schedule == ConflictQuery(sched)
             classes == load_classes_from_db(db, sched, less)
         IN  [conflicts |-> conflicts_schedule,
              conflict_cells |-> UNION { ConflictCellsOf(conflicts_schedule[k], classes) :
                                           k \in DOMAIN conflicts_schedule }]

(***************************************************************************)
(* update_db_with_cell_swap                                                *)
(***************************************************************************)
\* A grid cell is <<class_idx, day_idx, period_idx>>, all 0-based.
\* The points at which a statement of the swap can raise sqlite3.Error.
SwapFaults == {"none", "cur_read", "cur_upd2", "leg_read", "leg_upd2"}

\* day_codes of the SCHEDULED_LESSONS step.
day_codes == <<"Mo", "Tu", "We", "Th", "Fr", "Sa", "Su">>

\* WHERE SECTION=? AND DAYID=? AND PERIODID=?
ScheduleWhere(row, sec, d, p) == row.SECTION = sec /\ row.DAYID = d /\ row.PERIODID = p

\* WHERE CLASS_NAME=? AND DAY_OF_WEEK=? AND PERIOD_NUMBER=?
LessonsWhere(row, cls, code, num) ==
    row.CLASS_NAME = cls /\ row.DAY_OF_WEEK = code /\ row.PERIOD_NUMBER = num

\* SELECT SUBCODE, FINI FROM SCHEDULE WHERE ...; fetchone()
FetchSchedule(sched, sec, d, p) ==
    LET i == IndexOf([k \in DOMAIN sched |-> ScheduleWhere(sched[k], sec, d, p)], TRUE)
    IN  IF i = 0 THEN NoRow ELSE [found |-> TRUE, a |-> sched[i].SUBCODE, b |-> sched[i].FINI]

\* SELECT SUBJECT_CODE, TEACHER_ID FROM SCHEDULED_LESSONS WHERE ...; fetchone()
FetchLessons(less, cls, code, num) ==
    LET i == IndexOf([k \in DOMAIN less |-> LessonsWhere(less[k], cls, code, num)], TRUE)
    IN  IF i = 0 THEN NoRow
        ELSE [found |-> TRUE, a |-> less[i].SUBJECT_CODE, b |-> less[i].TEACHER_ID]

\* UpdateSchedule as delete-and-insert: the matching rows are removed and one row
\* with the new values is added.
UpdateSchedule_Replace(sched, sec, d, p, sub, fini) ==
    IF \E k \in DOMAIN sched : ScheduleWhere(sched[k], sec, d, p)
    THEN Append(SelectSeq(sched, LAMBDA r : ~ScheduleWhere(r, sec, d, p)),
                [SECTION |-> sec, DAYID |-> d, PERIODID |-> p, SUBCODE |-> sub, FINI |-> fini])
    ELSE sched

\* UPDATE SCHEDULE SET SUBCODE=?, FINI=? WHERE ...
UpdateSchedule(sched, sec, d, p, sub, fini) ==
    [k \in DOMAIN sched |->
        IF ScheduleWhere(sched[k], sec, d, p)
        THEN [sched[k] EXCEPT !.SUBCODE = sub, !.FINI = fini]
        ELSE sched[k]]

\* UPDATE SCHEDULED_LESSONS SET SUBJECT_CODE=?, TEACHER_ID=? WHERE ...
UpdateLessons(less, cls, code, num, sub, tid) ==
    [k \in DOMAIN less |->
        IF LessonsWhere(less[k], cls, code, num)
        THEN [less[k] EXCEPT !.SUBJECT_CODE = sub, !.TEACHER_ID = tid]
        ELSE less[k]]

\* SwapSchedule reading the first cell again after it was overwritten.
SwapSchedule_ReadAfterWrite(sched, n1, c1, n2, c2, fault) ==
    IF fault = "cur_read" THEN sched
    ELSE LET subj1 == FetchSchedule(sched, n1, c1[2], c1[3])
             subj2 == FetchSchedule(sched, n2, c2[2], c2[3])
         IN  IF subj1.found /\ subj2.found
             THEN LET first == UpdateSchedule(sched, n1, c1[2], c1[3], subj2.a, subj2.b)
                      again == FetchSchedule(first, n1, c1[2], c1[3])
                  IN  IF fault = "cur_upd2" THEN first
                      ELSE UpdateSchedule(first, n2, c2[2], c2[3], again.a, again.b)
             ELSE sched

\* The SCHEDULE try block: the table as the connection sees it afterwards.
SwapSchedule(sched, n1, c1, n2, c2, fault) ==
    IF fault = "cur_read" THEN sched
    ELSE LET subj1 == FetchSchedule(sched, n1, c1[2], c1[3])
             subj2 == FetchSchedule(sched, n2, c2[2], c2[3])
         IN  IF subj1.found /\ subj2.found
             THEN LET first == UpdateSchedule(sched, n1, c1[2], c1[3], subj2.a, subj2.b)
                  IN  IF fault = "cur_upd2" THEN first
                      ELSE UpdateSchedule(first, n2, c2[2], c2[3], subj1.a, subj1.b)
             ELSE sched

\* SwapLessons updating whenever one of the two rows exists.
SwapLessons_EitherRow(less, n1, c1, n2, c2, fault) ==
    LET day1_code == IF c1[2] < Len(day_codes) THEN day_codes[c1[2] + 1] ELSE NoneS
        day2_code == IF c2[2] < Len(day_codes) THEN day_codes[c2[2] + 1] ELSE NoneS
    IN  IF ~(TruthyS(day1_code) /\ TruthyS(day2_code)) \/ fault = "leg_read" THEN less
        ELSE LET lesson1 == FetchLessons(less, n1, day1_code, c1[3] + 1)
                 lesson2 == FetchLessons(less, n2, day2_code, c2[3] + 1)
             IN  IF lesson1.found \/ lesson2.found
                 THEN LET first == UpdateLessons(less, n1, day1_code, c1[3] + 1,
                                                 lesson2.a, lesson2.b)
                      IN  IF fault = "leg_upd2" THEN first
                          ELSE UpdateLessons(first, n2, day2_code, c2[3] + 1,
                                             lesson1.a, lesson1.b)
                 ELSE less

\* The SCHEDULED_LESSONS try block.
SwapLessons(less, n1, c1, n2, c2, fault) ==
    LET day1_code == IF c1[2] < Len(day_codes) THEN day_codes[c1[2] + 1] ELSE NoneS
        day2_code == IF c2[2] < Len(day_codes) THEN day_codes[c2[2] + 1] ELSE NoneS
    IN  IF ~(TruthyS(day1_code) /\ TruthyS(day2_code)) \/ fault = "leg_read" THEN less
        ELSE LET lesson1 == FetchLessons(less, n1, day1_code, c1[3] + 1)
                 lesson2 == FetchLessons(less, n2, day2_code, c2[3] + 1)
             IN  IF lesson1.found /\ lesson2.found
                 THEN LET first == UpdateLessons(less, n1, day1_code, c1[3] + 1,
                                                 lesson2.a, lesson2.b)
                      IN  IF fault = "leg_upd2" THEN first
                          ELSE UpdateLessons(first, n2, day2_code, c2[3] + 1,
                                             lesson1.a, lesson1.b)
                 ELSE less

\* NewConflicts without the test that the cell's section is one of the two sections of
\* the conflict.
NewConflicts_AnySection(conflicts, n1, c1, n2, c2) ==
    SelectSeq(conflicts, LAMBDA t :
        \/ (t[1] = c1[2] /\ t[2] = c1[3])
        \/ (t[1] = c2[2] /\ t[2] = c2[3]))

\* The conflicts of the post-swap store that involve one of the two cells.
NewConflicts(conflicts, n1, c1, n2, c2) ==
    SelectSeq(conflicts, LAMBDA t :
        \/ (t[1] = c1[2] /\ t[2] = c1[3] /\ (t[4] = n1 \/ t[5] = n1))
        \/ (t[1] = c2[2] /\ t[2] = c2[3] /\ (t[4] = n2 \/ t[5] = n2)))

\* update_db_with_cell_swap undoing its updates when the swap has made a conflict.
update_db_with_cell_swap_Rollback(db, sched, less, names, c1, c2, fault) ==
    LET class1_name == IF c1[1] < Len(names) THEN names[c1[1] + 1] ELSE NoneS
        class2_name == IF c2[1] < Len(names) THEN names[c2[1] + 1] ELSE NoneS
    IN  IF ~TruthyS(class1_name) \/ ~TruthyS(class2_name)
        THEN [status |-> "no_class", schedule |-> sched, lessons |-> less,
              new_conflicts |-> <<>>]
        ELSE IF ~db
        THEN [status |-> "no_db", schedule |-> sched, lessons |-> less,
              new_conflicts |-> <<>>]
        ELSE LET sched2 == SwapSchedule(sched, class1_name, c1, class2_name, c2, fault)
                 less2 == SwapLessons(less, class1_name, c1, class2_name, c2, fault)
                 found == check_faculty_conflicts(db, sched2, less2).conflicts
                 new == NewConflicts(found, class1_name, c1, class2_name, c2)
             IN  [status |-> "committed",
                  schedule |-> IF new # <<>> THEN sched ELSE sched2,
                  lessons |-> IF new # <<>> THEN less ELSE less2,
                  new_conflicts |-> new]

\* update_db_with_cell_swap without the test that the store file exists.
update_db_with_cell_swap_NoStoreCheck(db, sched, less, names, c1, c2, fault) ==
    LET class1_name == IF c1[1] < Len(names) THEN names[c1[1] + 1] ELSE NoneS
        class2_name == IF c2[1] < Len(names) THEN names[c2[1] + 1] ELSE NoneS
    IN  IF ~TruthyS(class1_name) \/ ~TruthyS(class2_name)
        THEN [status |-> "no_class", schedule |-> sched, lessons |-> less,
              new_conflicts |-> <<>>]
        ELSE LET sched2 == SwapSchedule(sched, class1_name, c1, class2_name, c2, fault)
                 less2 == SwapLessons(less, class1_name, c1, class2_name, c2, fault)
                 found == check_faculty_conflicts(db, sched2, less2).conflicts
             IN  [status |-> "committed", schedule |-> sched2, lessons |-> less2,
                  new_conflicts |-> NewConflicts(found, class1_name, c1, class2_name, c2)]

\* The whole handler: the committed store and what it reports.
\* update_db_with_cell_swap running the detector before its statements, on the store
\* as it was.
update_db_with_cell_swap_DetectFirst(db, sched, less, names, c1, c2, fault) ==
    LET class1_name == IF c1[1] < Len(names) THEN names[c1[1] + 1] ELSE NoneS
        class2_name == IF c2[1] < Len(names) THEN names[c2[1] + 1] ELSE NoneS
    IN  IF ~TruthyS(class1_name) \/ ~TruthyS(class2_name)
        THEN [status |-> "no_class", schedule |-> sched, lessons |-> less,
              new_conflicts |-> <<>>]
        ELSE IF ~db
        THEN [status |-> "no_db", schedule |-> sched, lessons |-> less,
              new_conflicts |-> <<>>]
        ELSE LET found == check_faculty_conflicts(db, sched, less).conflicts
                 sched2 == SwapSchedule(sched, class1_name, c1, class2_name, c2, fault)
                 less2 == SwapLessons(less, class1_name, c1, class2_name, c2, fault)
             IN  [status |-> "committed", schedule |-> sched2, lessons |-> less2,
                  new_conflicts |-> NewConflicts(found, class1_name, c1, class2_name, c2)]

\* update_db_with_cell_swap with one try block around both steps: an error of the
\* SCHEDULE step skips the SCHEDULED_LESSONS step.
update_db_with_cell_swap_OneTry(db, sched, less, names, c1, c2, fault) ==
    LET class1_name == IF c1[1] < Len(names) THEN names[c1[1] + 1] ELSE NoneS
        class2_name == IF c2[1] < Len(names) THEN names[c2[1] + 1] ELSE NoneS
    IN  IF ~TruthyS(class1_name) \/ ~TruthyS(class2_name)
        THEN [status |-> "no_class", schedule |-> sched, lessons |-> less,
              new_conflicts |-> <<>>]
        ELSE IF ~db
        THEN [status |-> "no_db", schedule |-> sched, lessons |-> less,
              new_conflicts |-> <<>>]
        ELSE LET sched2 == SwapSchedule(sched, class1_name, c1, class2_name, c2, fault)
                 less2 == IF fault \in {"cur_read", "cur_upd2"} THEN less
                          ELSE SwapLessons(less, class1_name, c1, class2_name, c2, fault)
                 found == check_faculty_conflicts(db, sched2, less2).conflicts
             IN  [status |-> "committed", schedule |-> sched2, lessons |-> less2,
                  new_conflicts |-> NewConflicts(found, class1_name, c1, class2_name, c2)]

update_db_with_cell_swap(db, sched, less, names, c1, c2, fault) ==
    LET class1_name == IF c1[1] < Len(names) THEN names[c1[1] + 1] ELSE NoneS
        class2_name == IF c2[1] < Len(names) THEN names[c2[1] + 1] ELSE NoneS
    IN  IF ~TruthyS(class1_name) \/ ~TruthyS(class2_name)
        THEN [status |-> "no_class", schedule |-> sched, lessons |-> less,
              new_conflicts |-> <<>>]
        ELSE IF ~db
        THEN [status |-> "no_db", schedule |-> sched, lessons |-> less,
              new_conflicts |-> <<>>]
        ELSE LET sched2 == SwapSchedule(sched, class1_name, c1, class2_name, c2, fault)
                 less2 == SwapLessons(less, class1_name, c1, class2_name, c2, fault)
                 \* conn.commit(), then the detector on the committed store
                 found == check_faculty_conflicts(db, sched2, less2).conflicts
             IN  [status |-> "committed", schedule |-> sched2, lessons |-> less2,
                  new_conflicts |-> NewConflicts(found, class1_name, c1, class2_name, c2)]

(***************************************************************************)
(* load_timetable_data                                                     *)
(***************************************************************************)
\* timetable_data[class][day][period] = {} : an empty dict.
EmptyCell == [empty |-> TRUE, subject |-> None, teacher |-> NoneS, full_name |-> None,
              subcode |-> None, color |-> NoneS, lesson_type |-> NoneS]

\* day_map of the SCHEDULE pass; day_map.get(day_id, f"Day{day_id}"). Every id
\* outside 0..6 gives a name "Day<id>", which is no weekday name.
DayNameOfId(day_id) ==
    CASE day_id = 0 -> "Monday" [] day_id = 1 -> "Tuesday" [] day_id = 2 -> "Wednesday"
      [] day_id = 3 -> "Thursday" [] day_id = 4 -> "Friday" [] day_id = 5 -> "Saturday"
      [] day_id = 6 -> "Sunday" [] OTHER -> "Day<id>"

\* day_map of the SCHEDULED_LESSONS pass; day_map.get(day_code, day_code).
DayNameOfCode(day_code) ==
    CASE day_code = "Mo" -> "Monday" [] day_code = "Tu" -> "Tuesday"
      [] day_code = "We" -> "Wednesday" [] day_code = "Th" -> "Thursday"
      [] day_code = "Fr" -> "Friday" [] day_code = "Sa" -> "Saturday"
      [] day_code = "Su" -> "Sunday" [] OTHER -> day_code

\* color: the joined s.COLOR, else subject_colors[subject_code], else None.
CellColor(joined) ==
    IF TruthyS(joined.COLOR) THEN joined.COLOR
    ELSE IF \E s \in SubjectColors : s.SUBCODE = joined.SUBCODE
         THEN (CHOOSE s \in SubjectColors : s.SUBCODE = joined.SUBCODE).COLOR
         ELSE NoneS

\* subject_code[:2] if subject_code else (subject_name[:2] if subject_name else "")
SubjectDisplay(subject_code, subject_name) ==
    IF Truthy(subject_code) THEN Prefix2(subject_code)
    ELSE IF Truthy(subject_name) THEN Prefix2(subject_name) ELSE <<>>

\* The dict written for a row: code is the row's subject code, teacher its faculty.
LessonCell(cls, code, teacher) ==
    LET joined == SubjectJoin(code)
    IN  [empty |-> FALSE,
         subject |-> SubjectDisplay(joined.SUBCODE, joined.SUBNAME),
         teacher |-> teacher,
         full_name |-> joined.SUBNAME,
         subcode |-> joined.SUBCODE,
         color |-> CellColor(joined),
         lesson_type |-> LessonType(cls, joined.SUBCODE)]

\* SELECT ... FROM SCHEDULE sch ... WHERE sch.SECTION = ? ORDER BY sch.DAYID, sch.PERIODID
ScheduleEntries(sched, cls) ==
    LET mine == SelectSeq(sched, LAMBDA r : r.SECTION = cls)
        keyed == [i \in DOMAIN mine |-> [k |-> <<mine[i].DAYID, mine[i].PERIODID>>,
                                         cls |-> cls, row |-> mine[i]]]
    IN  SortByKey(keyed)

\* SELECT ... FROM SCHEDULED_LESSONS sl ... WHERE sl.CLASS_NAME = ?
\* ORDER BY sl.DAY_OF_WEEK, sl.PERIOD_NUMBER
LessonEntries(less, cls) ==
    LET mine == SelectSeq(less, LAMBDA r : r.CLASS_NAME = cls)
        keyed == [i \in DOMAIN mine |->
                    [k |-> <<DayCodeRank(mine[i].DAY_OF_WEEK), mine[i].PERIOD_NUMBER>>,
                     cls |-> cls, row |-> mine[i]]]
    IN  SortByKey(keyed)

\* Concatenation of a sequence of sequences.
RECURSIVE Flatten(_)
Flatten(ss) == IF ss = <<>> THEN <<>> ELSE ss[1] \o Flatten(Tail(ss))

\* The rows in the order the loops of the SCHEDULE pass meet them: class by class.
ScheduleEntriesInOrder(sched, names) ==
    Flatten([i \in DOMAIN names |-> ScheduleEntries(sched, names[i])])

\* The rows in the order the loops of the SCHEDULED_LESSONS pass meet them.
LessonEntriesInOrder(less, names) ==
    Flatten([i \in DOMAIN names |-> LessonEntries(less, names[i])])

\* Python list indexing l[i] of a list of length n: the position used, or -1 for
\* IndexError.
PyIndex(i, n) == IF 0 <= i /\ i < n THEN i ELSE IF -n <= i /\ i < 0 THEN i + n ELSE -1

\* One row of the SCHEDULE pass.
ScheduleStep(acc, e, dayList, ppd) ==
    LET day_name == DayNameOfId(e.row.DAYID)
        period_id == e.row.PERIODID
    IN  IF ~acc.ok THEN acc
        ELSE IF day_name \notin SeqToSet(dayList) \/ period_id >= ppd THEN acc
        ELSE IF PyIndex(period_id, ppd) < 0 THEN [acc EXCEPT !.ok = FALSE]
        ELSE [acc EXCEPT
                !.grid[e.cls][day_name][PyIndex(period_id, ppd) + 1] =
                    LessonCell(e.cls, e.row.SUBCODE, e.row.FINI),
                !.writes = Append(@, [schema |-> "current", cls |-> e.cls, day |-> day_name,
                                      idx |-> PyIndex(period_id, ppd), own |-> period_id,
                                      row |-> e.row])]

\* One row of the SCHEDULED_LESSONS pass.
LessonStep(acc, e, dayList, ppd) ==
    LET day_name == DayNameOfCode(e.row.DAY_OF_WEEK)
        period_idx == e.row.PERIOD_NUMBER - 1
    IN  IF day_name \notin SeqToSet(dayList) \/ period_idx >= ppd \/ period_idx < 0 THEN acc
        ELSE IF Truthy(acc.grid[e.cls][day_name][period_idx + 1].subject) THEN acc
        ELSE [acc EXCEPT
                !.grid[e.cls][day_name][period_idx + 1] =
                    LessonCell(e.cls, e.row.SUBJECT_CODE, FacultyIni(e.row.TEACHER_ID)),
                !.writes = Append(@, [schema |-> "legacy", cls |-> e.cls, day |-> day_name,
                                      idx |-> period_idx, own |-> period_idx,
                                      row |-> e.row])]

\* The points at which a query of the loader can raise sqlite3.Error: the SCHEDULE
\* query or the SCHEDULED_LESSONS query, of the first class or of the second one.
LoadFaults == {"none", "cur_query", "cur_query_2", "leg_query", "leg_query_2"}

CurQueryFaults == {"cur_query", "cur_query_2"}

LegQueryFaults == {"leg_query", "leg_query_2"}

\* The classes whose query ran before the one that raised.
ClassesBefore(names, fault) ==
    LET k == IF fault \in {"cur_query", "leg_query"} THEN 0 ELSE 1
    IN  [i \in 1..(IF k < Len(names) THEN k ELSE Len(names)) |-> names[i]]

\* load_timetable_data. An error in the SCHEDULE pass is caught by the except of that
\* pass and the SCHEDULED_LESSONS pass runs; an error in the SCHEDULED_LESSONS pass is
\* caught by the outer except; the grid filled so far is returned in both cases.
load_timetable_data(db, sched, less, names, dayList, ppd, fault) ==
    IF ~db THEN [grid |-> <<>>, writes |-> <<>>, ok |-> TRUE]
    ELSE
    LET init == [grid |-> [c \in SeqToSet(names) |->
                            [d \in SeqToSet(dayList) |-> [i \in 1..ppd |-> EmptyCell]]],
                 writes |-> <<>>, ok |-> TRUE]
        cur == IF fault \in CurQueryFaults
               THEN ScheduleEntriesInOrder(sched, ClassesBefore(names, fault))
               ELSE ScheduleEntriesInOrder(sched, names)
        pass1[i \in 0..Len(cur)] ==
            IF i = 0 THEN init ELSE ScheduleStep(pass1[i - 1], cur[i], dayList, ppd)
        mid == [pass1[Len(cur)] EXCEPT !.ok = TRUE]
        leg == IF fault \in LegQueryFaults
               THEN LessonEntriesInOrder(less, ClassesBefore(names, fault))
               ELSE LessonEntriesInOrder(less, names)
        pass2[i \in 0..Len(leg)] ==
            IF i = 0 THEN mid ELSE LessonStep(pass2[i - 1], leg[i], dayList, ppd)
    IN  pass2[Len(leg)]

(***************************************************************************)
(* TimetableDisplayComponent.load_data: the spans of the displayed grid    *)
(***************************************************************************)
\* colspan of a lesson of the given kind that starts at period_idx of n periods, with
\* no test that the span ends inside the grid.
Colspan_NoClip(lesson_type, period_idx, n) ==
    IF lesson_type = "Double" THEN 2
    ELSE IF lesson_type = "Triple" THEN 3
    ELSE 1

\* colspan of a lesson of the given kind that starts at period_idx of n periods.
Colspan(lesson_type, period_idx, n) ==
    IF lesson_type = "Double" /\ period_idx < n - 1 THEN 2
    ELSE IF lesson_type = "Triple" /\ period_idx < n - 2 THEN 3
    ELSE 1

\* One turn of the loop over the periods of one class and day: processed is the part
\* of processed_cells that lies in this class and day.
SpanStep(acc, period_idx, period_data, n) ==
    IF period_idx < n /\ ~period_data.empty /\ period_idx \notin acc.processed
    THEN LET colspan == Colspan(period_data.lesson_type, period_idx, n)
         IN  [spans |-> acc.spans \cup {[start |-> period_idx, length |-> colspan]},
              processed |-> acc.processed \cup (period_idx..(period_idx + colspan - 1))]
    ELSE acc

\* The spans of one class and day, scanning the periods from left to right.
DaySpans(day_data, n) ==
    LET scan[i \in 0..Len(day_data)] ==
            IF i = 0 THEN [spans |-> {}, processed |-> {}]
            ELSE SpanStep(scan[i - 1], i - 1, day_data[i], n)
    IN  scan[Len(day_data)].spans

\* The grid row in which load_data leaves the cell frame of class_idx. A frame of one
\* column stays where the loop that rebuilds the grid put it, at row 2 + class_idx. A
\* frame of two or three columns is gridded again with the variable row, which that
\* loop left at its last value, the row of the last class.
GridRow(class_idx, colspan, num_classes_display) ==
    IF colspan > 1 THEN 2 + (num_classes_display - 1) ELSE 2 + class_idx

\* load_data: the cell frames it fills, keyed by (class_idx, day_idx, period_idx), each
\* with the number of columns it spans and the grid row it is placed in.
load_data(timetable_data, names, dayList, n) ==
    UNION { { [cls |-> ci - 1, day |-> di - 1, start |-> sp.start, length |-> sp.length,
               row |-> GridRow(ci - 1, sp.length, Len(names))] :
                sp \in DaySpans(timetable_data[names[ci]][dayList[di]], n) } :
            ci \in {i \in DOMAIN names : names[i] \in DOMAIN timetable_data},
            di \in DOMAIN dayList }

(***************************************************************************)
(* TimetableDisplayComponent.on_drop: the swap on the screen, then in the  *)
(* store                                                                   *)
(***************************************************************************)
\* The cell of the grid at <<class_idx, day_idx, period_idx>>.
CellAt(timetable_data, names, dayList, c) ==
    IF names[c[1] + 1] \in DOMAIN timetable_data
    THEN timetable_data[names[c[1] + 1]][dayList[c[2] + 1]][c[3] + 1]
    ELSE EmptyCell

\* get_cell_data of the frame that load_data filled from a cell of the grid: the text
\* of the subject label, the text of the teacher label, the background colour; a
\* frame without labels for an empty cell.
get_cell_data(cell) ==
    IF cell.empty THEN [texts |-> FALSE, subject |-> None, teacher |-> NoneS, color |-> NoneS]
    ELSE [texts |-> TRUE, subject |-> cell.subject, teacher |-> cell.teacher,
          color |-> cell.color]

\* swap_cells: both frames are cleared, then each is filled with the labels the other
\* one had; recreate_cell_content adds nothing for a frame that had no label.
swap_cells(data1, data2) == [cell1 |-> data2, cell2 |-> data1]

\* The frame of cell c is drawn as a cell of its own: no Double or Triple that starts
\* to its left has removed it from the grid.
OwnFrame(spans, c) ==
    ~\E sp \in spans :
        /\ sp.cls = c[1] /\ sp.day = c[2]
        /\ sp.start < c[3] /\ c[3] <= sp.start + sp.length - 1

\* reload_timetable: load_timetable_data, then load_data on its result. The screen
\* after it: the grid as loaded, and the spans its frames are drawn with.
frames_of(timetable_data, names, dayList, ppd) ==
    [spans |-> load_data(timetable_data.grid, names, dayList, ppd)] @@ timetable_data

reload_timetable(db, sched, less, names, dayList, ppd, fault) ==
    frames_of(load_timetable_data(db, sched, less, names, dayList, ppd, fault),
              names, dayList, ppd)

\* What the frames of c1 and c2 show on a screen drawn from grid.
ShownAt(grid, names, dayList, c1, c2) ==
    [cell1 |-> get_cell_data(CellAt(grid, names, dayList, c1)),
     cell2 |-> get_cell_data(CellAt(grid, names, dayList, c2))]

\* The end of update_db_with_cell_swap: with conflicts found it warns and reloads the
\* grid from the store; without, the frames keep what swap_cells has put in them.
frames_after_update(r, swapped, db, names, dayList, ppd, c1, c2) ==
    IF r.new_conflicts # <<>>
    THEN ShownAt(reload_timetable(db, r.schedule, r.lessons, names, dayList, ppd,
                                  "none").grid,
                 names, dayList, c1, c2)
    ELSE swapped

\* The result of the update r, with what the two frames show at the end.
drop_result(r, shown, own) ==
    [status |-> r.status, schedule |-> r.schedule, lessons |-> r.lessons,
     new_conflicts |-> r.new_conflicts, own_frames |-> own,
     shown1 |-> shown.cell1, shown2 |-> shown.cell2]

drop_after_update(r, swapped, own, db, names, dayList, ppd, c1, c2) ==
    drop_result(r, frames_after_update(r, swapped, db, names, dayList, ppd, c1, c2), own)

\* on_drop of the selected cell c1 on the cell c2 of the screen: swap_cells on the
\* two frames, then update_db_with_cell_swap, which reloads the grid from the store
\* when it has found conflicts.
on_drop(db, sched, less, names, dayList, ppd, screen, c1, c2, fault) ==
    drop_after_update(update_db_with_cell_swap(db, sched, less, names, c1, c2, fault),
                      swap_cells(ShownAt(screen.grid, names, dayList, c1, c2).cell1,
                                 ShownAt(screen.grid, names, dayList, c1, c2).cell2),
                      OwnFrame(screen.spans, c1) /\ OwnFrame(screen.spans, c2),
                      db, names, dayList, ppd, c1, c2)

(***************************************************************************)
(* TimetableApp._load_timetable_structure                                  *)
(***************************************************************************)
DEFAULT_DAYS == << <<"M", "o">>, <<"T", "u">>, <<"W", "e">>, <<"T", "h">>, <<"F", "r">>,
                   <<"S", "a">> >>

DEFAULT_PERIODS_INFO ==
    << <<"8", ":", "0", "0", " ", "-", " ", "8", ":", "4", "5">>,
       <<"9", ":", "0", "0", " ", "-", " ", "9", ":", "4", "5">>,
       <<"1", "0", ":", "0", "0", " ", "-", " ", "1", "0", ":", "4", "5">>,
       <<"1", "1", ":", "0", "0", " ", "-", " ", "1", "1", ":", "4", "5">>,
       <<"1", "2", ":", "0", "0", " ", "-", " ", "1", "2", ":", "4", "5">>,
       <<"1", "3", ":", "0", "0", " ", "-", " ", "1", "3", ":", "4", "5">> >>

\* str.split(sep)
RECURSIVE Split(_, _)
Split(s, sep) ==
    LET i == IndexOf(s, sep)
    IN  IF i = 0 THEN <<s>>
        ELSE <<SubSeq(s, 1, i - 1)>> \o Split(SubSeq(s, i + 1, Len(s)), sep)

\* str.split(sep, 1) of a string that contains sep
SplitOnce(s, sep) ==
    LET i == IndexOf(s, sep)
    IN  <<SubSeq(s, 1, i - 1), SubSeq(s, i + 1, Len(s))>>

Digits == <<"0", "1", "2", "3", "4", "5", "6", "7", "8", "9">>

\* The digits of s, after an optional sign.
Unsigned(s) == IF s # <<>> /\ s[1] \in {"+", "-"} THEN Tail(s) ELSE s

\* int(s) does not raise ValueError.
IsIntText(s) ==
    /\ Unsigned(s) # <<>>
    /\ \A i \in DOMAIN Unsigned(s) : Unsigned(s)[i] \in SeqToSet(Digits)

RECURSIVE NatOf(_)
NatOf(s) == IF s = <<>> THEN 0
            ELSE 10 * NatOf(SubSeq(s, 1, Len(s) - 1)) + (IndexOf(Digits, s[Len(s)]) - 1)

\* int(s)
IntOf(s) == IF s[1] = "-" THEN 0 - NatOf(Unsigned(s)) ELSE NatOf(Unsigned(s))

\* The enabled default day codes in the order the setting lists them.
ParseDays_SettingOrder(value) ==
    LET days_enabled == Split(value, ",")
    IN  SelectSeq(days_enabled, LAMBDA day : day \in SeqToSet(DEFAULT_DAYS))

\* days = [day for day in DEFAULT_DAYS if day in days_enabled]
ParseDays(value) ==
    LET days_enabled == Split(value, ",")
    IN  SelectSeq(DEFAULT_DAYS, LAMBDA day : day \in SeqToSet(days_enabled))

\* The text of a day code held as a character sequence.
CodeText(code) ==
    CASE code = <<"M", "o">> -> "Mo" [] code = <<"T", "u">> -> "Tu" [] code = <<"W", "e">> -> "We"
      [] code = <<"T", "h">> -> "Th" [] code = <<"F", "r">> -> "Fr" [] code = <<"S", "a">> -> "Sa"
      [] code = <<"S", "u">> -> "Su" [] OTHER -> "<code>"

\* The day list the display component falls back to.
DisplayDefaultDays == <<"Monday", "Tuesday", "Wednesday", "Thursday", "Friday">>

\* TimetableDisplayComponent.load_days_from_db: the names of the codes of
\* DAYS_ENABLED in the order of the setting; the store holds no SCHOOL_CONFIG row.
load_days_from_db(db, st) ==
    IF ~db \/ ~st.hasTable \/ ~Truthy(st.DAYS_ENABLED) THEN DisplayDefaultDays
    ELSE LET codes == Split(st.DAYS_ENABLED, ",")
         IN  [i \in DOMAIN codes |-> DayNameOfCode(CodeText(codes[i]))]

\* One turn of the PERIODS_CONFIG loop; int() raising ends the try block.
PeriodStep(acc, period_conf) ==
    IF ~acc.ok THEN acc
    ELSE IF ":" \notin SeqToSet(period_conf) THEN acc
    ELSE LET parts == SplitOnce(period_conf, ":")
         IN  IF ~IsIntText(parts[1]) THEN [acc EXCEPT !.ok = FALSE]
             ELSE [acc EXCEPT !.data = (IntOf(parts[1]) :> parts[2]) @@ @]

\* ParsePeriods adding the parsed pairs to the period map it was given.
ParsePeriods_MergeDefaults(value, periods_info) ==
    LET confs == Split(value, ",")
        loop[i \in 0..Len(confs)] ==
            IF i = 0 THEN [data |-> <<>>, ok |-> TRUE] ELSE PeriodStep(loop[i - 1], confs[i])
        done == loop[Len(confs)]
    IN  IF done.ok /\ DOMAIN done.data # {} THEN done.data @@ periods_info ELSE periods_info

\* The PERIODS_CONFIG try block: the period map after it.
ParsePeriods(value, periods_info) ==
    LET confs == Split(value, ",")
        loop[i \in 0..Len(confs)] ==
            IF i = 0 THEN [data |-> <<>>, ok |-> TRUE] ELSE PeriodStep(loop[i - 1], confs[i])
        done == loop[Len(confs)]
    IN  IF done.ok /\ DOMAIN done.data # {} THEN done.data ELSE periods_info

\* The NUM_PERIODS try block: the period map after it.
TruncatePeriods(value, periods_info) ==
    IF IsIntText(value)
    THEN [k \in {j \in DOMAIN DEFAULT_PERIODS_INFO : j <= IntOf(value)} |->
            DEFAULT_PERIODS_INFO[k]]
    ELSE periods_info

_load_timetable_structure(c, st) ==
    IF ~c \/ ~st.hasTable
    THEN [days |-> DEFAULT_DAYS, periods_info |-> DEFAULT_PERIODS_INFO]
    ELSE LET dayList == IF Truthy(st.DAYS_ENABLED) THEN ParseDays(st.DAYS_ENABLED)
                        ELSE DEFAULT_DAYS
             afterConfig == IF Truthy(st.PERIODS_CONFIG)
                            THEN ParsePeriods(st.PERIODS_CONFIG, DEFAULT_PERIODS_INFO)
                            ELSE DEFAULT_PERIODS_INFO
             afterNum == IF Truthy(st.NUM_PERIODS)
                         THEN TruncatePeriods(st.NUM_PERIODS, afterConfig)
                         ELSE afterConfig
         IN  [days |-> dayList, periods_info |-> afterNum]

(***************************************************************************)
(* The state machine.                                                      *)
(*                                                                         *)
(*   conn, settings          the TimetableApp connection and the           *)
(*                           TIMETABLE_SETTINGS rows it reads              *)
(*   dbExists                files/timetable.db exists                     *)
(*   inject                  the storage engine may raise sqlite3.Error in *)
(*                           this run                                      *)
(*   schedule, lessons       the SCHEDULE and SCHEDULED_LESSONS tables,    *)
(*                           rows in rowid order                           *)
(*   class_names, days,      the lists that index the grid of the display  *)
(*   periods                 component (periods is len(self.periods))      *)
(*   last                    the last operation: its arguments, what it    *)
(*                           returned and the tables it started from       *)
(***************************************************************************)
\* Rows of SCHEDULE: 0-based DAYID and PERIODID.
ScheduleRows(secs, slots, subfac) ==
    { [SECTION |-> sec, DAYID |-> sl[1], PERIODID |-> sl[2], SUBCODE |-> sf[1], FINI |-> sf[2]] :
        sec \in secs, sl \in slots, sf \in subfac }

\* Rows of SCHEDULED_LESSONS: day codes and 1-based PERIOD_NUMBER.
LessonRows(secs, slots, subtid) ==
    { [CLASS_NAME |-> sec, DAY_OF_WEEK |-> sl[1], PERIOD_NUMBER |-> sl[2],
       SUBJECT_CODE |-> st[1], TEACHER_ID |-> st[2]] :
        sec \in secs, sl \in slots, st \in subtid }

\* The section list the program starts the display component with: the loaded
\* classes, or the grades 5 and 6 with three sections each when none is loaded.
StartClasses(db, sched, less) ==
    LET loaded == load_classes_from_db(db, sched, less)
    IN  IF loaded # <<>> THEN loaded
        ELSE <<"5.A", "5.B", "5.C", "6.A", "6.B", "6.C">>

NoSettings == [hasTable |-> FALSE, DAYS_ENABLED |-> None, PERIODS_CONFIG |-> None,
               NUM_PERIODS |-> None]

\* The store and the grid shape; the settings side is not connected.
StoreInit(schedU, lessU, dayLists, periodCounts, faulty) ==
    /\ conn = FALSE
    /\ inject = faulty
    /\ settings = NoSettings
    /\ dbExists \in BOOLEAN
    /\ schedule \in SeqsUpTo(schedU, MaxSched)
    /\ lessons \in SeqsUpTo(lessU, MaxLess)
    /\ Len(schedule) + Len(lessons) <= MaxTotal
    /\ ~dbExists => (schedule = <<>> /\ lessons = <<>>)
    /\ class_names = StartClasses(dbExists, schedule, lessons)
    /\ days \in dayLists
    /\ periods \in periodCounts
    /\ last = [op |-> "init"]

\* Two sections, one day, two periods; every row lies inside the grid. Section A
\* can hold two rows for one cell and either faculty in both periods.
Init ==
    StoreInit(ScheduleRows({"A"}, {<<0, 0>>, <<0, 1>>}, {<<MA1, "JD">>, <<PH1, "KS">>})
                \cup ScheduleRows({"B"}, {<<0, 1>>}, {<<MA1, "JD">>}),
              LessonRows({"A"}, {<<"Mo", 2>>}, {<<MA1, "T1">>})
                \cup LessonRows({"B"}, {<<"Mo", 2>>}, {<<PH1, "T2">>}),
              {<<"Monday">>}, {2}, FALSE)

\* One section; rows inside and outside a grid of one day and two periods, and a
\* subject code that SUBJECTS does not hold.
InitLoad ==
    StoreInit(ScheduleRows({"A"}, {<<0, -3>>, <<0, -1>>, <<0, 0>>, <<0, 2>>, <<5, 0>>},
                           {<<MA1, "JD">>})
                \cup ScheduleRows({"A"}, {<<0, 0>>}, {<<XY9, "JD">>}),
              LessonRows({"A"}, {<<"Mo", 0>>, <<"Mo", 1>>, <<"Mo", 2>>, <<"Mo", 3>>, <<"Sa", 1>>},
                         {<<PH1, "T1">>}),
              {<<"Monday">>}, {2}, FALSE)

\* Stores of two sections, one day and two periods with one row per cell at most; a
\* statement of the swap or a query of the loader can raise sqlite3.Error.
InitFault ==
    /\ conn = FALSE
    /\ inject = TRUE
    /\ settings = NoSettings
    /\ dbExists = TRUE
    /\ schedule \in
         { <<>>,
           << [SECTION |-> "A", DAYID |-> 0, PERIODID |-> 0, SUBCODE |-> MA1, FINI |-> "JD"],
              [SECTION |-> "A", DAYID |-> 0, PERIODID |-> 1, SUBCODE |-> PH1, FINI |-> "KS"] >>,
           << [SECTION |-> "A", DAYID |-> 0, PERIODID |-> 0, SUBCODE |-> MA1, FINI |-> "JD"],
              [SECTION |-> "B", DAYID |-> 0, PERIODID |-> 1, SUBCODE |-> PH1, FINI |-> "KS"] >>,
           << [SECTION |-> "A", DAYID |-> 0, PERIODID |-> 1, SUBCODE |-> NULLCODE, FINI |-> "NULL"],
              [SECTION |-> "B", DAYID |-> 0, PERIODID |-> 1, SUBCODE |-> NULLCODE, FINI |-> "NULL"] >> }
    /\ lessons \in
         { <<>>,
           << [CLASS_NAME |-> "A", DAY_OF_WEEK |-> "Mo", PERIOD_NUMBER |-> 1,
               SUBJECT_CODE |-> MA1, TEACHER_ID |-> "T1"],
              [CLASS_NAME |-> "A", DAY_OF_WEEK |-> "Mo", PERIOD_NUMBER |-> 2,
               SUBJECT_CODE |-> PH1, TEACHER_ID |-> "T2"] >>,
           << [CLASS_NAME |-> "A", DAY_OF_WEEK |-> "Mo", PERIOD_NUMBER |-> 2,
               SUBJECT_CODE |-> PH1, TEACHER_ID |-> "T2"],
              [CLASS_NAME |-> "B", DAY_OF_WEEK |-> "Mo", PERIOD_NUMBER |-> 2,
               SUBJECT_CODE |-> MA1, TEACHER_ID |-> "T2"] >> }
    /\ schedule # <<>> \/ lessons # <<>>
    /\ class_names = StartClasses(dbExists, schedule, lessons)
    /\ days = <<"Monday">>
    /\ periods = 2
    /\ last = [op |-> "init"]

\* ",".join(tokens)
RECURSIVE Join(_)
Join(tokens) ==
    IF tokens = <<>> THEN <<>>
    ELSE IF Len(tokens) = 1 THEN tokens[1]
    ELSE tokens[1] \o <<",">> \o Join(Tail(tokens))

DayTokens == { <<"M", "o">>, <<"T", "u">>, <<"S", "u">> }

PeriodEntries ==
    { <<"1", ":", "8", ":", "0", "0", "-", "8", ":", "4", "5">>,
      <<"2", ":", "9", ":", "0", "0", "-", "9", ":", "4", "5">>,
      <<"x", ":", "1", "0">>,
      <<"9">> }

NumPeriodsValues == { None, <<"0">>, <<"2">>, <<"x">> }

\* Every content of the settings store; the lesson store holds one row.
InitSettings ==
    /\ conn \in BOOLEAN
    /\ settings \in
         [hasTable : BOOLEAN,
          DAYS_ENABLED : {None} \cup {Join(t) : t \in SeqsUpTo(DayTokens, MaxDayTokens)},
          PERIODS_CONFIG : {None} \cup {Join(t) : t \in SeqsUpTo(PeriodEntries, MaxEntries)},
          NUM_PERIODS : NumPeriodsValues]
    /\ (~conn \/ ~settings.hasTable) => settings = NoSettings
    /\ dbExists = TRUE
    /\ inject = FALSE
    /\ schedule = <<[SECTION |-> "A", DAYID |-> 0, PERIODID |-> 0, SUBCODE |-> MA1,
                     FINI |-> "JD"]>>
    /\ lessons = <<>>
    /\ class_names = StartClasses(dbExists, schedule, lessons)
    /\ days = <<"Monday">>
    /\ periods = 2
    /\ last = [op |-> "init"]

\* Stores with lessons on Monday and Tuesday, shown by a display component whose day
\* list is read from DAYS_ENABLED.
InitDays ==
    /\ conn = TRUE
    /\ inject = FALSE
    /\ dbExists = TRUE
    /\ settings \in
         { [hasTable |-> TRUE, DAYS_ENABLED |-> Join(t), PERIODS_CONFIG |-> None,
            NUM_PERIODS |-> None] :
              t \in { << <<"M", "o">>, <<"T", "u">> >>, << <<"T", "u">> >>,
                      << <<"T", "u">>, <<"M", "o">> >> } }
    /\ schedule \in
         { << [SECTION |-> "A", DAYID |-> 1, PERIODID |-> 0, SUBCODE |-> MA1, FINI |-> "JD"],
              [SECTION |-> "B", DAYID |-> 1, PERIODID |-> 0, SUBCODE |-> PH1, FINI |-> "JD"] >>,
           << [SECTION |-> "A", DAYID |-> 0, PERIODID |-> 0, SUBCODE |-> MA1, FINI |-> "JD"],
              [SECTION |-> "A", DAYID |-> 1, PERIODID |-> 0, SUBCODE |-> PH1, FINI |-> "KS"],
              [SECTION |-> "B", DAYID |-> 0, PERIODID |-> 0, SUBCODE |-> PH1, FINI |-> "JD"] >> }
    /\ lessons \in
         { <<>>,
           << [CLASS_NAME |-> "A", DAY_OF_WEEK |-> "Mo", PERIOD_NUMBER |-> 1,
               SUBJECT_CODE |-> MA1, TEACHER_ID |-> "T1"],
              [CLASS_NAME |-> "A", DAY_OF_WEEK |-> "Tu", PERIOD_NUMBER |-> 1,
               SUBJECT_CODE |-> PH1, TEACHER_ID |-> "T2"] >> }
    /\ class_names = StartClasses(dbExists, schedule, lessons)
    /\ days = load_days_from_db(dbExists, settings)
    /\ periods = 2
    /\ last = [op |-> "init"]

\* The cells of the grid.
Cells == { <<ci, di, pi>> : ci \in 0..(Len(class_names) - 1), di \in 0..(Len(days) - 1),
                            pi \in 0..(periods - 1) }

\* resolve_settings
Resolve ==
    /\ last' = [op |-> "resolve"] @@ _load_timetable_structure(conn, settings)
    /\ UNCHANGED <<conn, settings, dbExists, inject, schedule, lessons, class_names, days, periods>>

\* reload_timetable
Load ==
    \E f \in (IF inject THEN LoadFaults ELSE {"none"}) :
        /\ last' = [op |-> "load", fault |-> f]
                   @@ reload_timetable(dbExists, schedule, lessons, class_names, days,
                                       periods, f)
        /\ UNCHANGED <<conn, settings, dbExists, inject, schedule, lessons, class_names, days, periods>>

\* detect_conflicts
Detect ==
    /\ last' = [op |-> "detect"] @@ check_faculty_conflicts(dbExists, schedule, lessons)
    /\ UNCHANGED <<conn, settings, dbExists, inject, schedule, lessons, class_names, days, periods>>

\* The store and the history after a drop with the result r.
Dropped(c1, c2, f, r) ==
    /\ schedule' = r.schedule
    /\ lessons' = r.lessons
    /\ last' = [op |-> "swap", c1 |-> c1, c2 |-> c2, fault |-> f,
                status |-> r.status, new_conflicts |-> r.new_conflicts,
                own_frames |-> r.own_frames,
                shown1 |-> r.shown1, shown2 |-> r.shown2,
                pre_schedule |-> schedule, pre_lessons |-> lessons]

\* on_drop of one cell onto a different cell of the given screen
DropOn(screen) ==
    \E c1 \in Cells, c2 \in Cells, f \in (IF inject THEN SwapFaults ELSE {"none"}) :
        /\ c1 # c2
        /\ Dropped(c1, c2, f, on_drop(dbExists, schedule, lessons, class_names, days,
                                      periods, screen, c1, c2, f))

\* on_drop: the drop of one cell onto a different cell, on a screen that shows the
\* grid of the store as it is
Swap ==
    /\ DropOn(reload_timetable(dbExists, schedule, lessons, class_names, days, periods,
                               "none"))
    /\ UNCHANGED <<conn, settings, dbExists, inject, class_names, days, periods>>

Next == Resolve \/ Load \/ Detect \/ Swap

Spec == Init /\ [][Next]_vars

SpecLoad == InitLoad /\ [][Next]_vars

SpecSettings == InitSettings /\ [][Next]_vars

SpecFault == InitFault /\ [][Next]_vars

SpecDays == InitDays /\ [][Next]_vars

(***************************************************************************)
(* Properties of the settings resolver.                                    *)
(***************************************************************************)
\* C1: whatever the settings store holds (any DAYS_ENABLED, PERIODS_CONFIG and
\* NUM_PERIODS, no settings table, no connection), resolve_settings returns a
\* non-empty day list and a non-empty period map, and with no connection it returns
\* the 6 default days and the 6 default periods.
C1_ResolveNeverEmpty ==
    last.op = "resolve" =>
        /\ last.days # <<>>
        /\ DOMAIN last.periods_info # {}
        /\ ~conn => (last.days = DEFAULT_DAYS /\ last.periods_info = DEFAULT_PERIODS_INFO)

(***************************************************************************)
(* Properties of the loader.                                               *)
(***************************************************************************)
\* A SCHEDULE row resolves to the cell (cls, day, idx) of the grid.
CurrentResolves(r, cls, day, idx) ==
    /\ r.SECTION = cls
    /\ DayNameOfId(r.DAYID) = day
    /\ r.PERIODID = idx

\* A SCHEDULED_LESSONS row resolves to the cell (cls, day, idx) of the grid.
LegacyResolves(l, cls, day, idx) ==
    /\ l.CLASS_NAME = cls
    /\ DayNameOfCode(l.DAY_OF_WEEK) = day
    /\ l.PERIOD_NUMBER - 1 = idx

\* C2: when a cell has a row in both schemas, with different subjects, the loaded
\* cell is the value of a current-schema row of that cell; the legacy row never
\* replaces it.
C2_CurrentOverridesLegacy ==
    (last.op = "load" /\ last.fault = "none" /\ dbExists) =>
        \A cls \in SeqToSet(class_names), day \in SeqToSet(days), idx \in 0..(periods - 1) :
            (\E i \in DOMAIN schedule, j \in DOMAIN lessons :
                /\ CurrentResolves(schedule[i], cls, day, idx)
                /\ LegacyResolves(lessons[j], cls, day, idx)
                /\ schedule[i].SUBCODE # lessons[j].SUBJECT_CODE)
            => \E i \in DOMAIN schedule :
                /\ CurrentResolves(schedule[i], cls, day, idx)
                /\ last.grid[cls][day][idx + 1]
                     = LessonCell(cls, schedule[i].SUBCODE, schedule[i].FINI)

\* C3: every row the loader writes is written at a day index inside the day list
\* and at a period index inside 0..periods_per_day-1, and that period index is the
\* row's own 0-based period.
C3_WritesInRange ==
    last.op = "load" =>
        \A k \in DOMAIN last.writes :
            LET w == last.writes[k]
            IN  /\ IndexOf(days, w.day) >= 1
                /\ 0 <= w.idx /\ w.idx < periods
                /\ w.idx = w.own

(***************************************************************************)
(* Properties of the conflict detector.                                    *)
(***************************************************************************)
\* The SCHEDULE table holds a lesson of section sec at (d, p) with faculty f.
HoldsLesson(sec, d, p, f) ==
    \E i \in DOMAIN schedule :
        /\ schedule[i].SECTION = sec
        /\ schedule[i].DAYID = d
        /\ schedule[i].PERIODID = p
        /\ schedule[i].FINI = f

C5_ConflictsSymmetric ==
    last.op = "detect" =>
        \A k \in DOMAIN last.conflicts :
            LET t == last.conflicts[k]
            IN  <<t[1], t[2], t[3], t[5], t[4]>> \in SeqToSet(last.conflicts)

\* A detection that returns a conflict between section A and section B.
C5_Witness ==
    /\ last.op = "detect"
    /\ \E k \in DOMAIN last.conflicts : last.conflicts[k][4] = "A" /\ last.conflicts[k][5] = "B"

(***************************************************************************)
(* Properties of the swap.                                                 *)
(***************************************************************************)
\* The section names of the two cells of the last swap.
Name1 == class_names[last.c1[1] + 1]

Name2 == class_names[last.c2[1] + 1]

\* What the swap read for each cell, in each schema, from the tables it started from.
PreCur1 == FetchSchedule(last.pre_schedule, Name1, last.c1[2], last.c1[3])

PreCur2 == FetchSchedule(last.pre_schedule, Name2, last.c2[2], last.c2[3])

PreLeg1 == FetchLessons(last.pre_lessons, Name1, day_codes[last.c1[2] + 1], last.c1[3] + 1)

PreLeg2 == FetchLessons(last.pre_lessons, Name2, day_codes[last.c2[2] + 1], last.c2[3] + 1)

\* The SCHEDULE rows of cell 1 now hold what cell 2 held, and the converse; every
\* other row is as it was.
CurExchanged ==
    /\ Len(schedule) = Len(last.pre_schedule)
    /\ \A k \in DOMAIN schedule :
          LET r == schedule[k]
          IN  IF ScheduleWhere(r, Name1, last.c1[2], last.c1[3])
              THEN r.SUBCODE = PreCur2.a /\ r.FINI = PreCur2.b
              ELSE IF ScheduleWhere(r, Name2, last.c2[2], last.c2[3])
              THEN r.SUBCODE = PreCur1.a /\ r.FINI = PreCur1.b
              ELSE r = last.pre_schedule[k]

\* The same for the SCHEDULED_LESSONS rows.
LegExchanged ==
    /\ Len(lessons) = Len(last.pre_lessons)
    /\ \A k \in DOMAIN lessons :
          LET r == lessons[k]
          IN  IF LessonsWhere(r, Name1, day_codes[last.c1[2] + 1], last.c1[3] + 1)
              THEN r.SUBJECT_CODE = PreLeg2.a /\ r.TEACHER_ID = PreLeg2.b
              ELSE IF LessonsWhere(r, Name2, day_codes[last.c2[2] + 1], last.c2[3] + 1)
              THEN r.SUBJECT_CODE = PreLeg1.a /\ r.TEACHER_ID = PreLeg1.b
              ELSE r = last.pre_lessons[k]

\* The last operation was a swap that ran to its commit with no statement failing.
CleanSwap == last.op = "swap" /\ last.status = "committed" /\ last.fault = "none"

\* C6: a swap of two cells followed at once by the swap of the same two cells leaves
\* both tables as they were before the first swap.
C6_SwapTwiceRestores ==
    [][ (/\ CleanSwap
         /\ last'.op = "swap" /\ last'.status = "committed" /\ last'.fault = "none"
         /\ last'.c1 = last.c1 /\ last'.c2 = last.c2)
        => (schedule' = last.pre_schedule /\ lessons' = last.pre_lessons) ]_vars

\* C7: when both cells have a row in a schema, after the swap the rows of the first
\* cell hold the (subject, faculty) pair that was read for the second cell and the
\* rows of the second cell hold the pair read for the first, for SCHEDULE and for
\* SCHEDULED_LESSONS independently.
C7_ValueSwap ==
    CleanSwap =>
        /\ (PreCur1.found /\ PreCur2.found) => CurExchanged
        /\ (PreLeg1.found /\ PreLeg2.found) => LegExchanged

\* A swap that exchanged different values in both schemas.
C7_Witness ==
    /\ CleanSwap
    /\ PreCur1.found /\ PreCur2.found /\ schedule # last.pre_schedule
    /\ PreLeg1.found /\ PreLeg2.found /\ lessons # last.pre_lessons

\* The (section, day, period) keys of the rows of each table, row by row.
ScheduleKeys(sched) == [k \in DOMAIN sched |-> <<sched[k].SECTION, sched[k].DAYID, sched[k].PERIODID>>]

LessonKeys(less) ==
    [k \in DOMAIN less |-> <<less[k].CLASS_NAME, less[k].DAY_OF_WEEK, less[k].PERIOD_NUMBER>>]

\* C8: no operation creates or deletes a lesson row or changes a row's key: the keys
\* of both tables stay, row by row, what they were.
C8_KeysPreserved ==
    [][ /\ ScheduleKeys(schedule') = ScheduleKeys(schedule)
        /\ LessonKeys(lessons') = LessonKeys(lessons) ]_vars

\* A swap that changed the SCHEDULE table.
C8_Witness == CleanSwap /\ schedule # last.pre_schedule

\* C9: a swap leaves a schema's table unchanged when one of the two cells has no row
\* in that schema, and still exchanges the rows of the other schema when both cells
\* have a row there.
C9_PartialSwapFrame ==
    (last.op = "swap" /\ last.status = "committed") =>
        /\ ~(PreLeg1.found /\ PreLeg2.found) => lessons = last.pre_lessons
        /\ ~(PreCur1.found /\ PreCur2.found) => schedule = last.pre_schedule
        /\ (last.fault = "none" /\ PreCur1.found /\ PreCur2.found
               /\ ~(PreLeg1.found /\ PreLeg2.found)) => CurExchanged
        /\ (last.fault = "none" /\ PreLeg1.found /\ PreLeg2.found
               /\ ~(PreCur1.found /\ PreCur2.found)) => LegExchanged

\* A swap of two cells that both have a SCHEDULE row while only one of them has a
\* SCHEDULED_LESSONS row.
C9_Witness ==
    /\ CleanSwap
    /\ PreCur1.found /\ PreCur2.found /\ schedule # last.pre_schedule
    /\ PreLeg1.found # PreLeg2.found

\* C10: when the swap reports conflicts, the store is left in the swapped state and
\* every reported conflict is a conflict of that state; the updates are not undone.
C10_CommitDespiteConflict ==
    (CleanSwap /\ last.new_conflicts # <<>>) =>
        /\ (PreCur1.found /\ PreCur2.found) => CurExchanged
        /\ (PreLeg1.found /\ PreLeg2.found) => LegExchanged
        /\ \A k \in DOMAIN last.new_conflicts :
              LET t == last.new_conflicts[k]
              IN  HoldsLesson(t[4], t[1], t[2], t[3]) /\ HoldsLesson(t[5], t[1], t[2], t[3])

\* A swap on a store without conflicts that made one and changed the table.
C10_Witness ==
    /\ CleanSwap
    /\ last.new_conflicts # <<>>
    /\ ConflictQuery(last.pre_schedule) = <<>>
    /\ schedule # last.pre_schedule

(***************************************************************************)
(* Properties of the swap under failing statements.                        *)
(***************************************************************************)
\* C11: in every execution of the swap that reaches its commit, also one in which a
\* statement fails, the committed SCHEDULE table has either both cells' rows
\* exchanged or is what it was, and so has the committed SCHEDULED_LESSONS table; a
\* table with one cell updated and the other stale is never committed.
C11_SwapAtomicPerSchema ==
    (last.op = "swap" /\ last.status = "committed") =>
        /\ schedule = last.pre_schedule \/ (PreCur1.found /\ PreCur2.found /\ CurExchanged)
        /\ lessons = last.pre_lessons \/ (PreLeg1.found /\ PreLeg2.found /\ LegExchanged)
TouchesCell(t, n, c) == t[1] = c[2] /\ t[2] = c[3] /\ (t[4] = n \/ t[5] = n)

\* C13: every conflict that the swap returns touches one of the two swapped cells and
\* is not in the result of detect_conflicts on the store as it was before the swap.
C13_ReturnedConflictsAreNew ==
    CleanSwap =>
        \A k \in DOMAIN last.new_conflicts :
            LET t == last.new_conflicts[k]
            IN  /\ TouchesCell(t, Name1, last.c1) \/ TouchesCell(t, Name2, last.c2)
                /\ t \notin SeqToSet(ConflictQuery(last.pre_schedule))
(***************************************************************************)
(* Further properties of the conflict detector.                            *)
(***************************************************************************)
\* C14: when SCHEDULED_LESSONS holds rows of two different sections at the same day
\* and period with the same teacher, the conflict list returned by detect_conflicts
\* holds a record for that pair of sections with that teacher's initials.
C14_LegacyDoubleBookingReported ==
    last.op = "detect" =>
        \A i \in DOMAIN lessons, j \in DOMAIN lessons :
            (/\ lessons[i].CLASS_NAME # lessons[j].CLASS_NAME
             /\ lessons[i].DAY_OF_WEEK = lessons[j].DAY_OF_WEEK
             /\ lessons[i].PERIOD_NUMBER = lessons[j].PERIOD_NUMBER
             /\ lessons[i].TEACHER_ID = lessons[j].TEACHER_ID)
            => \E k \in DOMAIN last.conflicts :
                  /\ last.conflicts[k][3] = FacultyIni(lessons[i].TEACHER_ID)
                  /\ last.conflicts[k][4] = lessons[i].CLASS_NAME
                  /\ last.conflicts[k][5] = lessons[j].CLASS_NAME
\* C15: no conflict record returned by detect_conflicts has the faculty "NULL"; two
\* sections whose rows at one day and period both carry the faculty "NULL" give no
\* record.
C15_NullFacultyNoConflict ==
    last.op = "detect" =>
        \A k \in DOMAIN last.conflicts : last.conflicts[k][3] # "NULL"
\* The grid cell of section sec at the day with id d and period p: the index of the
\* section in the section list, the index of the day in the day list, the period.
GridCellOf(sec, d, p) ==
    <<IndexOf(class_names, sec) - 1, IndexOf(days, DayNameOfId(d)) - 1, p>>

\* C16: for every conflict (d, p, f, A, B) that detect_conflicts returns, the returned
\* cell set holds the grid cell of A and the grid cell of B at that slot, in grid
\* coordinates; and every cell of the set is the grid cell of a section of some
\* returned conflict.
C16_ConflictCellsAreGridCells ==
    last.op = "detect" =>
        /\ \A k \in DOMAIN last.conflicts :
              LET t == last.conflicts[k]
              IN  /\ GridCellOf(t[4], t[1], t[2]) \in last.conflict_cells
                  /\ GridCellOf(t[5], t[1], t[2]) \in last.conflict_cells
        /\ \A c \in last.conflict_cells :
              \E k \in DOMAIN last.conflicts :
                  LET t == last.conflicts[k]
                  IN  c = GridCellOf(t[4], t[1], t[2]) \/ c = GridCellOf(t[5], t[1], t[2])
(***************************************************************************)
(* Further properties of the settings resolver.                            *)
(***************************************************************************)
\* The entries of the PERIODS_CONFIG value of the store.
ConfigEntries == Split(settings.PERIODS_CONFIG, ",")

\* An entry is a well-formed pair: an integer, a colon, a time range.
WellFormedEntry(e) == ":" \in SeqToSet(e) /\ IsIntText(SubSeq(e, 1, IndexOf(e, ":") - 1))

\* The period number and the time range of a well-formed entry.
EntryPeriod(e) == IntOf(SubSeq(e, 1, IndexOf(e, ":") - 1))

EntryRange(e) == SubSeq(e, IndexOf(e, ":") + 1, Len(e))

\* The resolver read a PERIODS_CONFIG value made of well-formed pairs only, with
\* NUM_PERIODS not set.
ResolvedFromConfig ==
    /\ last.op = "resolve" /\ conn /\ settings.hasTable
    /\ Truthy(settings.PERIODS_CONFIG)
    /\ \A i \in DOMAIN ConfigEntries : WellFormedEntry(ConfigEntries[i])
    /\ settings.NUM_PERIODS = None

\* C17: when PERIODS_CONFIG is a list of well-formed period:time_range pairs and
\* NUM_PERIODS is not set, the returned period map has exactly the period numbers of
\* the pairs, each with the time range of its (last) pair, and for
\* "1:8:00-8:45,2:9:00-9:45" it is {1: "8:00-8:45", 2: "9:00-9:45"}.
C17_PeriodsConfigExact ==
    ResolvedFromConfig =>
        /\ DOMAIN last.periods_info = {EntryPeriod(ConfigEntries[i]) : i \in DOMAIN ConfigEntries}
        /\ \A i \in DOMAIN ConfigEntries :
              (\A j \in (i + 1)..Len(ConfigEntries) :
                    EntryPeriod(ConfigEntries[j]) # EntryPeriod(ConfigEntries[i]))
              => last.periods_info[EntryPeriod(ConfigEntries[i])] = EntryRange(ConfigEntries[i])
        /\ (settings.PERIODS_CONFIG =
               <<"1", ":", "8", ":", "0", "0", "-", "8", ":", "4", "5", ",",
                 "2", ":", "9", ":", "0", "0", "-", "9", ":", "4", "5">>)
             => last.periods_info =
                  (1 :> <<"8", ":", "0", "0", "-", "8", ":", "4", "5">>)
                  @@ (2 :> <<"9", ":", "0", "0", "-", "9", ":", "4", "5">>)

\* The resolver read "1:8:00-8:45,2:9:00-9:45" with NUM_PERIODS not set.
C17_Witness ==
    /\ ResolvedFromConfig
    /\ Len(ConfigEntries) = 2
    /\ EntryPeriod(ConfigEntries[1]) = 1 /\ EntryPeriod(ConfigEntries[2]) = 2
(***************************************************************************)
(* Stores of one section whose lessons are single, double and triple       *)
(***************************************************************************)
MaxPeriods == 4

\* The SCHEDULE rows of section C on Monday: kinds[i] is the subject code at period
\* i - 1, None where the period holds no row.
SlotRows(kinds) ==
    LET all == [i \in DOMAIN kinds |->
                  [SECTION |-> "C", DAYID |-> 0, PERIODID |-> i - 1,
                   SUBCODE |-> kinds[i], FINI |-> "JD"]]
    IN  SelectSeq(all, LAMBDA r : r.SUBCODE # None)

InitSpans ==
    /\ conn = FALSE
    /\ inject = FALSE
    /\ settings = NoSettings
    /\ dbExists = TRUE
    /\ periods \in 1..MaxPeriods
    /\ \E slots \in {periods, periods + 1} :
          /\ slots = periods \/ periods <= 2
          /\ \E kinds \in [1..slots -> {None, MA1, PH1, XY9}] : schedule = SlotRows(kinds)
    /\ lessons = <<>>
    /\ class_names = StartClasses(dbExists, schedule, lessons)
    /\ days = <<"Monday">>
    /\ last = [op |-> "init"]

SpecSpans == InitSpans /\ [][Next]_vars

\* The grid that the last reload handed to load_data, one class and day of it.
LoadedDay(ci, di) == last.grid[class_names[ci + 1]][days[di + 1]]

\* The length the rule gives a lesson of lesson_type that starts at period index p.
RuleLength(lesson_type, p) ==
    IF lesson_type = "Double" /\ p + 1 <= periods - 1 THEN 2
    ELSE IF lesson_type = "Triple" /\ p + 2 <= periods - 1 THEN 3
    ELSE 1

\* C18: after a reload, every span that starts at period index p has length 2 when the
\* lesson there is a Double and p + 1 <= n - 1, length 3 when it is a Triple and
\* p + 2 <= n - 1, and length 1 otherwise; no span starts at a follow-on period of a
\* span of length 2 or 3; and every lesson of the grid starts a span or lies in one.
C18_SpanLengths ==
    (last.op = "load" /\ dbExists) =>
        /\ \A sp \in last.spans :
              /\ ~LoadedDay(sp.cls, sp.day)[sp.start + 1].empty
              /\ sp.length = RuleLength(LoadedDay(sp.cls, sp.day)[sp.start + 1].lesson_type,
                                        sp.start)
              /\ \A q \in (sp.start + 1)..(sp.start + sp.length - 1) :
                    ~\E other \in last.spans :
                        other.cls = sp.cls /\ other.day = sp.day /\ other.start = q
        /\ \A ci \in 0..(Len(class_names) - 1), di \in 0..(Len(days) - 1), p \in 0..(periods - 1) :
              ~LoadedDay(ci, di)[p + 1].empty =>
                  \E sp \in last.spans :
                      /\ sp.cls = ci /\ sp.day = di
                      /\ sp.start <= p /\ p <= sp.start + sp.length - 1

\* A Double cut to one period at the last index, a Triple cut to one period in the last
\* two, and a Double that swallows a lesson at its follow-on period.
C18_Witness ==
    /\ last.op = "load" /\ dbExists
    /\ \E a, b, c \in last.spans :
          /\ LoadedDay(a.cls, a.day)[a.start + 1].lesson_type = "Double"
          /\ a.length = 2
          /\ ~LoadedDay(a.cls, a.day)[a.start + 2].empty
          /\ LoadedDay(b.cls, b.day)[b.start + 1].lesson_type = "Triple"
          /\ b.length = 1
          /\ LoadedDay(c.cls, c.day)[c.start + 1].lesson_type = "Single"

\* The spans keyed by the cell frame they belong to: those of one class index and day
\* share no period and lie inside the grid.
SpansDisjointPerCellKey ==
    (last.op = "load" /\ dbExists) =>
        /\ \A sp \in last.spans :
              sp.length >= 1 /\ 0 <= sp.start /\ sp.start + sp.length <= periods
        /\ \A s1, s2 \in last.spans :
              (s1 # s2 /\ s1.cls = s2.cls /\ s1.day = s2.day) =>
                  (s1.start + s1.length <= s2.start \/ s2.start + s2.length <= s1.start)

ResolvedFromDaysEnabled ==
    /\ last.op = "resolve"
    /\ conn /\ settings.hasTable
    /\ Truthy(settings.DAYS_ENABLED)

EnabledCodes == SeqToSet(Split(settings.DAYS_ENABLED, ","))

\* C20: when DAYS_ENABLED is defined, the resolved day list holds exactly the default
\* day codes that the setting lists, each once and in the order of the default list
\* Mo,Tu,We,Th,Fr,Sa; a code that is no default day code is not in the list.
C20_DaysFilterDefaultOrder ==
    ResolvedFromDaysEnabled =>
        /\ SeqToSet(last.days) = SeqToSet(DEFAULT_DAYS) \cap EnabledCodes
        /\ \A i, j \in DOMAIN last.days :
              i < j => IndexOf(DEFAULT_DAYS, last.days[i]) < IndexOf(DEFAULT_DAYS, last.days[j])

\* DAYS_ENABLED = "Tu,Mo" resolves to Mo,Tu.
C20_Witness ==
    /\ ResolvedFromDaysEnabled
    /\ Split(settings.DAYS_ENABLED, ",") = << <<"T", "u">>, <<"M", "o">> >>
    /\ last.days = << <<"M", "o">>, <<"T", "u">> >>

\* The map that a PERIODS_CONFIG value of well-formed pairs denotes: each period number
\* with the time range of the last pair that names it.
ConfigMap ==
    [k \in {EntryPeriod(ConfigEntries[i]) : i \in DOMAIN ConfigEntries} |->
        LET i == CHOOSE i \in DOMAIN ConfigEntries :
                     /\ EntryPeriod(ConfigEntries[i]) = k
                     /\ \A j \in (i + 1)..Len(ConfigEntries) : EntryPeriod(ConfigEntries[j]) # k
        IN  EntryRange(ConfigEntries[i])]

\* C21: NUM_PERIODS is used only when PERIODS_CONFIG is absent. Without PERIODS_CONFIG
\* and with NUM_PERIODS a positive integer n, the period map is the default map cut to
\* its first n periods; with PERIODS_CONFIG a list of well-formed pairs, the period map
\* is the map of those pairs, whatever NUM_PERIODS holds.
C21_NumPeriodsOnlyWithoutConfig ==
    (last.op = "resolve" /\ conn /\ settings.hasTable) =>
        /\ (/\ ~Truthy(settings.PERIODS_CONFIG)
            /\ Truthy(settings.NUM_PERIODS)
            /\ IsIntText(settings.NUM_PERIODS)
            /\ IntOf(settings.NUM_PERIODS) > 0)
           => last.periods_info =
                  [k \in {j \in DOMAIN DEFAULT_PERIODS_INFO : j <= IntOf(settings.NUM_PERIODS)}
                      |-> DEFAULT_PERIODS_INFO[k]]
        /\ (/\ Truthy(settings.PERIODS_CONFIG)
            /\ \A i \in DOMAIN ConfigEntries : WellFormedEntry(ConfigEntries[i]))
           => last.periods_info = ConfigMap

\* The positions of the well-formed pairs of PERIODS_CONFIG.
WellFormedAt == {i \in DOMAIN ConfigEntries : WellFormedEntry(ConfigEntries[i])}

\* C22: parsing PERIODS_CONFIG recovers per entry. When the value holds a well-formed
\* pair (and NUM_PERIODS is not set), the period map has exactly the period numbers of
\* the well-formed pairs, each with the time range of its last well-formed pair: an
\* entry without a colon or with a period number that is no integer is skipped alone.
C22_ParseRecoversPerEntry ==
    (/\ last.op = "resolve" /\ conn /\ settings.hasTable
     /\ Truthy(settings.PERIODS_CONFIG)
     /\ settings.NUM_PERIODS = None
     /\ WellFormedAt # {})
    => /\ DOMAIN last.periods_info = {EntryPeriod(ConfigEntries[i]) : i \in WellFormedAt}
       /\ \A i \in WellFormedAt :
             (\A j \in WellFormedAt : j > i => EntryPeriod(ConfigEntries[j]) # EntryPeriod(ConfigEntries[i]))
             => last.periods_info[EntryPeriod(ConfigEntries[i])] = EntryRange(ConfigEntries[i])

\* A SCHEDULED_LESSONS row lies in the grid; its cell in the grid of the last reload.
LegacyInGrid(r) ==
    /\ r.CLASS_NAME \in SeqToSet(class_names)
    /\ DayNameOfCode(r.DAY_OF_WEEK) \in SeqToSet(days)
    /\ 1 <= r.PERIOD_NUMBER /\ r.PERIOD_NUMBER <= periods

LegacyCell(r) == last.grid[r.CLASS_NAME][DayNameOfCode(r.DAY_OF_WEEK)][r.PERIOD_NUMBER]

\* A SCHEDULE row lies in the grid; its cell in the grid of the last reload.
CurrentInGrid(r) ==
    /\ r.SECTION \in SeqToSet(class_names)
    /\ DayNameOfId(r.DAYID) \in SeqToSet(days)
    /\ 0 <= r.PERIODID /\ r.PERIODID < periods

CurrentCell(r) == last.grid[r.SECTION][DayNameOfId(r.DAYID)][r.PERIODID + 1]

\* The loader placed a SCHEDULE row in the slot (cls, day_name, idx) before the error.
CurrentPlacedAt(cls, day_name, idx) ==
    \E k \in DOMAIN last.writes :
        /\ last.writes[k].schema = "current"
        /\ last.writes[k].cls = cls /\ last.writes[k].day = day_name /\ last.writes[k].idx = idx

\* C23: a reload in which a query of one schema raises still returns a grid over every
\* class and day. When the SCHEDULE query raises, every SCHEDULED_LESSONS row of the
\* grid is shown in its cell, unless a SCHEDULE row read before the error holds that
\* cell; when the SCHEDULED_LESSONS query raises, every SCHEDULE row of the grid is
\* shown in its cell.
C23_QueryFailureKeepsOtherSchema ==
    (last.op = "load" /\ dbExists /\ last.fault # "none") =>
        /\ DOMAIN last.grid = SeqToSet(class_names)
        /\ \A c \in SeqToSet(class_names) : DOMAIN last.grid[c] = SeqToSet(days)
        /\ last.fault \in CurQueryFaults =>
              \A i \in DOMAIN lessons :
                  LegacyInGrid(lessons[i]) =>
                      \/ CurrentPlacedAt(lessons[i].CLASS_NAME,
                                         DayNameOfCode(lessons[i].DAY_OF_WEEK),
                                         lessons[i].PERIOD_NUMBER - 1)
                      \/ \E j \in DOMAIN lessons :
                            /\ lessons[j].CLASS_NAME = lessons[i].CLASS_NAME
                            /\ lessons[j].DAY_OF_WEEK = lessons[i].DAY_OF_WEEK
                            /\ lessons[j].PERIOD_NUMBER = lessons[i].PERIOD_NUMBER
                            /\ LegacyCell(lessons[i]) =
                                   LessonCell(lessons[j].CLASS_NAME, lessons[j].SUBJECT_CODE,
                                              FacultyIni(lessons[j].TEACHER_ID))
        /\ last.fault \in LegQueryFaults =>
              \A i \in DOMAIN schedule :
                  CurrentInGrid(schedule[i]) =>
                      \E j \in DOMAIN schedule :
                          /\ schedule[j].SECTION = schedule[i].SECTION
                          /\ schedule[j].DAYID = schedule[i].DAYID
                          /\ schedule[j].PERIODID = schedule[i].PERIODID
                          /\ CurrentCell(schedule[i]) =
                                 LessonCell(schedule[j].SECTION, schedule[j].SUBCODE,
                                            schedule[j].FINI)

\* C24: an error of a statement of one schema's step does not stop the swap. When a
\* SCHEDULE statement raises, the SCHEDULED_LESSONS rows of the two cells are still
\* exchanged and committed; when a SCHEDULED_LESSONS statement raises, the exchange of
\* the SCHEDULE rows is still committed.
C24_SwapProceedsWithOtherSchema ==
    (last.op = "swap" /\ dbExists /\ last.fault # "none") =>
        /\ last.status = "committed"
        /\ (last.fault \in {"cur_read", "cur_upd2"} /\ PreLeg1.found /\ PreLeg2.found)
               => LegExchanged
        /\ (last.fault \in {"leg_read", "leg_upd2"} /\ PreCur1.found /\ PreCur2.found)
               => CurExchanged

\* The second UPDATE of SCHEDULE raised in a swap of two cells that both hold a
\* SCHEDULED_LESSONS row, and the rows of that table changed.
C24_Witness ==
    /\ last.op = "swap" /\ dbExists /\ last.fault = "cur_upd2"
    /\ PreCur1.found /\ PreCur2.found
    /\ PreLeg1.found /\ PreLeg2.found
    /\ lessons # last.pre_lessons

(***************************************************************************)
(* Stores of three sections that share a teacher                           *)
(***************************************************************************)
InitThree ==
    /\ conn = FALSE
    /\ inject = FALSE
    /\ settings = NoSettings
    /\ dbExists = TRUE
    /\ schedule \in
         { << [SECTION |-> "A", DAYID |-> 0, PERIODID |-> 0, SUBCODE |-> MA1, FINI |-> "KS"],
              [SECTION |-> "A", DAYID |-> 0, PERIODID |-> 1, SUBCODE |-> PH1, FINI |-> "KS"],
              [SECTION |-> "B", DAYID |-> 0, PERIODID |-> 1, SUBCODE |-> MA1, FINI |-> "JD"],
              [SECTION |-> "C", DAYID |-> 0, PERIODID |-> 1, SUBCODE |-> PH1, FINI |-> "JD"] >>,
           << [SECTION |-> "A", DAYID |-> 0, PERIODID |-> 0, SUBCODE |-> MA1, FINI |-> "JD"],
              [SECTION |-> "A", DAYID |-> 0, PERIODID |-> 1, SUBCODE |-> PH1, FINI |-> "KS"],
              [SECTION |-> "B", DAYID |-> 0, PERIODID |-> 1, SUBCODE |-> MA1, FINI |-> "JD"],
              [SECTION |-> "C", DAYID |-> 0, PERIODID |-> 1, SUBCODE |-> PH1, FINI |-> "JD"] >>,
           << [SECTION |-> "A", DAYID |-> 0, PERIODID |-> 0, SUBCODE |-> MA1, FINI |-> "JD"],
              [SECTION |-> "B", DAYID |-> 0, PERIODID |-> 0, SUBCODE |-> PH1, FINI |-> "JD"],
              [SECTION |-> "B", DAYID |-> 0, PERIODID |-> 1, SUBCODE |-> PH1, FINI |-> "KS"],
              [SECTION |-> "C", DAYID |-> 0, PERIODID |-> 1, SUBCODE |-> MA1, FINI |-> "JD"] >> }
    /\ lessons \in
         { <<>>,
           << [CLASS_NAME |-> "A", DAY_OF_WEEK |-> "Mo", PERIOD_NUMBER |-> 1,
               SUBJECT_CODE |-> MA1, TEACHER_ID |-> "T1"],
              [CLASS_NAME |-> "B", DAY_OF_WEEK |-> "Mo", PERIOD_NUMBER |-> 1,
               SUBJECT_CODE |-> PH1, TEACHER_ID |-> "T2"] >> }
    /\ class_names = StartClasses(dbExists, schedule, lessons)
    /\ days = <<"Monday">>
    /\ periods = 2
    /\ last = [op |-> "init"]

SpecThree == InitThree /\ [][Next]_vars

\* What detect_conflicts gives on the store as it is now.
DetectedNow == check_faculty_conflicts(dbExists, schedule, lessons).conflicts

\* C25: the list a swap returns is the sub-list of the detector's result on the store
\* after the swap that holds the records with (day, period) of the first cell and the
\* first cell's section among their two sections, or (day, period) of the second cell
\* and the second cell's section among their two sections: in the detector's order,
\* none omitted, none added.
C25_ReturnedIsFilteredDetection ==
    (last.op = "swap" /\ last.status = "committed") =>
        /\ \A k \in DOMAIN last.new_conflicts :
              \/ TouchesCell(last.new_conflicts[k], Name1, last.c1)
              \/ TouchesCell(last.new_conflicts[k], Name2, last.c2)
        /\ \A k \in DOMAIN DetectedNow :
              (\/ TouchesCell(DetectedNow[k], Name1, last.c1)
               \/ TouchesCell(DetectedNow[k], Name2, last.c2))
              => DetectedNow[k] \in SeqToSet(last.new_conflicts)
        /\ \E pick \in [DOMAIN last.new_conflicts -> DOMAIN DetectedNow] :
              /\ \A k \in DOMAIN last.new_conflicts : DetectedNow[pick[k]] = last.new_conflicts[k]
              /\ \A k, m \in DOMAIN last.new_conflicts : k < m => pick[k] < pick[m]

\* A swap that returns some of the detector's records and leaves out a record of the
\* same day and period as one of its cells, between two other sections.
C25_Witness ==
    /\ last.op = "swap" /\ last.status = "committed"
    /\ schedule # last.pre_schedule
    /\ last.new_conflicts # <<>>
    /\ \E k \in DOMAIN DetectedNow :
          /\ DetectedNow[k] \notin SeqToSet(last.new_conflicts)
          /\ DetectedNow[k][1] = last.c1[2] /\ DetectedNow[k][2] = last.c1[3]

\* C26: in every swap the updates are committed before the detector runs and the
\* detector runs before the swap returns: every conflict the step reports is a record
\* of the detector on the store the step leaves, every record of that store that
\* touches one of the two cells is reported, and no record that only the store before
\* the step had is reported.
C26_DetectorAfterCommit ==
    [][(last'.op = "swap" /\ last'.status = "committed") =>
          LET post == check_faculty_conflicts(dbExists', schedule', lessons').conflicts
              pre == check_faculty_conflicts(dbExists, schedule, lessons).conflicts
              n1 == class_names[last'.c1[1] + 1]
              n2 == class_names[last'.c2[1] + 1]
          IN  /\ last'.pre_schedule = schedule /\ last'.pre_lessons = lessons
              /\ SeqToSet(last'.new_conflicts) \subseteq SeqToSet(post)
              /\ \A k \in DOMAIN post :
                    (TouchesCell(post[k], n1, last'.c1) \/ TouchesCell(post[k], n2, last'.c2))
                    => post[k] \in SeqToSet(last'.new_conflicts)
              /\ \A k \in DOMAIN pre :
                    pre[k] \notin SeqToSet(post) => pre[k] \notin SeqToSet(last'.new_conflicts)
      ]_vars

\* A swap after which the detector's records for the two cells differ from its records
\* for them on the store before the swap.
C26_Witness ==
    /\ last.op = "swap" /\ last.status = "committed"
    /\ schedule # last.pre_schedule
    /\ last.new_conflicts # <<>>
    /\ LET pre == check_faculty_conflicts(dbExists, last.pre_schedule, last.pre_lessons).conflicts
       IN  /\ \E k \in DOMAIN pre :
                 /\ TouchesCell(pre[k], Name1, last.c1) \/ TouchesCell(pre[k], Name2, last.c2)
                 /\ pre[k] \notin SeqToSet(last.new_conflicts)
           /\ \E k \in DOMAIN last.new_conflicts : last.new_conflicts[k] \notin SeqToSet(pre)

\* The store without the rows whose section, day or period lies outside the grid.
ScheduleInGrid == SelectSeq(schedule, LAMBDA r : CurrentInGrid(r))

LessonsInGrid == SelectSeq(lessons, LAMBDA r : LegacyInGrid(r))

\* C27: a row whose day or period lies outside the grid is dropped alone and without
\* an error: the grid a reload returns is the grid it returns for the store without the
\* rows outside the grid.
C27_OutOfRangeDroppedAlone ==
    (last.op = "load" /\ last.fault = "none" /\ dbExists) =>
        /\ last.ok
        /\ last.grid = load_timetable_data(dbExists, ScheduleInGrid, LessonsInGrid,
                                           class_names, days, periods, "none").grid

\* A SCHEDULE row, or a SCHEDULED_LESSONS row, is a row of the grid cell c as the grid
\* displays it: the cell's section, the weekday at the cell's position in the day list,
\* the cell's period.
CurrentRowOfShownCell(r, c) ==
    /\ r.SECTION = class_names[c[1] + 1]
    /\ DayNameOfId(r.DAYID) = days[c[2] + 1]
    /\ r.PERIODID = c[3]

LegacyRowOfShownCell(r, c) ==
    /\ r.CLASS_NAME = class_names[c[1] + 1]
    /\ DayNameOfCode(r.DAY_OF_WEEK) = days[c[2] + 1]
    /\ r.PERIOD_NUMBER = c[3] + 1

\* C28: whatever the day list, the rows a swap of two grid cells changes are rows of
\* the weekday that the grid displays in the column of one of the two cells.
C28_SwapRowsOfDisplayedDay ==
    (last.op = "swap" /\ last.status = "committed") =>
        /\ \A k \in DOMAIN schedule :
              schedule[k] # last.pre_schedule[k] =>
                  \/ CurrentRowOfShownCell(schedule[k], last.c1)
                  \/ CurrentRowOfShownCell(schedule[k], last.c2)
        /\ \A k \in DOMAIN lessons :
              lessons[k] # last.pre_lessons[k] =>
                  \/ LegacyRowOfShownCell(lessons[k], last.c1)
                  \/ LegacyRowOfShownCell(lessons[k], last.c2)

\* What a reload from the store as it is now would show in the cell c.
ReloadShows(c) ==
    get_cell_data(CellAt(load_timetable_data(dbExists, schedule, lessons, class_names, days,
                                             periods, "none").grid,
                         class_names, days, c))

\* C29: after a drop of one cell on another cell, both drawn as cells of their own on
\* a screen that showed the grid of the store, the two cells show what a reload from
\* the store would show in them, also when one of the cells was empty or when the two
\* cells took their data from different tables.
C29_ScreenEqualsStoreAfterDrop ==
    (last.op = "swap" /\ last.fault = "none" /\ last.own_frames) =>
        /\ last.shown1 = ReloadShows(last.c1)
        /\ last.shown2 = ReloadShows(last.c2)

\* C30: the span projection hides no lesson behind the span of another lesson. After a
\* reload, the cell at every follow-on period of a span of length 2 or 3 is empty or
\* holds the subject of the cell the span starts at; and every lesson whose subject
\* differs from the subject of the cell to its left starts a span of its own.
C30_NoLessonHiddenBySpan ==
    (last.op = "load" /\ dbExists) =>
        /\ \A sp \in last.spans :
              \A q \in (sp.start + 1)..(sp.start + sp.length - 1) :
                  \/ LoadedDay(sp.cls, sp.day)[q + 1].empty
                  \/ LoadedDay(sp.cls, sp.day)[q + 1].subcode
                        = LoadedDay(sp.cls, sp.day)[sp.start + 1].subcode
        /\ \A ci \in 0..(Len(class_names) - 1), di \in 0..(Len(days) - 1), p \in 1..(periods - 1) :
              (/\ ~LoadedDay(ci, di)[p + 1].empty
               /\ \/ LoadedDay(ci, di)[p].empty
                  \/ LoadedDay(ci, di)[p].subcode # LoadedDay(ci, di)[p + 1].subcode)
              => \E sp \in last.spans : sp.cls = ci /\ sp.day = di /\ sp.start = p
====
